---- MODULE Spec2Model ----
(***************************************************************************)
(* Model of quantreo.features_engineering.trend: sma, kama, linear_slope   *)
(* and linear_slope_and_r2, each a call on one column of a DataFrame.      *)
(*                                                                         *)
(* A float64 is modelled as a pair <<n, d>>: an exact reduced fraction n/d *)
(* when d > 0, and the IEEE specials when d = 0: <<0,0>> is NaN (pandas'   *)
(* missing marker), <<1,0>> is +inf, <<-1,0>> is -inf.  Rounding is not    *)
(* modelled.  Positions are 1-based: position i here is index i-1 in the   *)
(* Python source, so "i >= window_size - 1" there reads "i >= w" here.     *)
(***************************************************************************)
EXTENDS Integers, Sequences, FiniteSets

\* ---------------------------------------------------------------- bounds
\* longest input column
MaxLen == 3
\* general input columns hold NaN or an integer in 0..MaxVal
MaxVal == 1
\* linear input columns value[i] = a*i + b with a in -MaxA..MaxA, b in -MaxB..MaxB
MaxA == 2
MaxB == 1
\* window_size in 1..MaxW
MaxW == 3
\* kama's l1 in 1..MaxL1, l2 and l3 in -MaxNegL..MaxL
MaxL1 == 2
MaxNegL == 2
MaxL == 1

\* ------------------------------------------------------- float64 values
NaN == <<0, 0>>
PosInf == <<1, 0>>
NegInf == <<-1, 0>>

F(k) == <<k, 1>>

IsNaN(x) == x = NaN

IsFin(x) == x[2] # 0

Abs(k) == IF k < 0 THEN -k ELSE k

Sgn(k) == IF k < 0 THEN -1 ELSE IF k = 0 THEN 0 ELSE 1

RECURSIVE GCD(_, _)
GCD(a, b) == IF b = 0 THEN a ELSE GCD(b, a % b)

\* the reduced fraction n/d, d > 0
Norm(n, d) ==
  LET g == GCD(Abs(n), d) IN <<(Sgn(n) * (Abs(n) \div g)), d \div g>>

FNeg(x) == <<-x[1], x[2]>>

FAbs(x) == <<Abs(x[1]), x[2]>>

FAdd(x, y) ==
  IF IsNaN(x) \/ IsNaN(y) THEN NaN
  ELSE IF ~IsFin(x) THEN (IF ~IsFin(y) /\ y # x THEN NaN ELSE x)
  ELSE IF ~IsFin(y) THEN y
  ELSE LET g == GCD(x[2], y[2])
           l == (x[2] \div g) * y[2]
       IN Norm(x[1] * (l \div x[2]) + y[1] * (l \div y[2]), l)

FSub(x, y) == FAdd(x, FNeg(y))

FMul(x, y) ==
  IF IsNaN(x) \/ IsNaN(y) THEN NaN
  ELSE IF ~IsFin(x) \/ ~IsFin(y)
       THEN (IF x[1] = 0 \/ y[1] = 0 THEN NaN ELSE <<Sgn(x[1]) * Sgn(y[1]), 0>>)
  ELSE LET g1 == GCD(Abs(x[1]), y[2])
           g2 == GCD(Abs(y[1]), x[2])
       IN Norm((x[1] \div g1) * (y[1] \div g2), (x[2] \div g2) * (y[2] \div g1))

\* IEEE division (numpy, pandas): x/0 is NaN for x = 0 and an infinity otherwise
FDiv(x, y) ==
  IF IsNaN(x) \/ IsNaN(y) THEN NaN
  ELSE IF ~IsFin(y) THEN (IF ~IsFin(x) THEN NaN ELSE F(0))
  ELSE IF ~IsFin(x) THEN (IF y[1] < 0 THEN FNeg(x) ELSE x)
  ELSE IF y[1] = 0 THEN (IF x[1] = 0 THEN NaN ELSE <<Sgn(x[1]), 0>>)
  ELSE FMul(x, <<Sgn(y[1]) * y[2], Abs(y[1])>>)

FSq(x) == FMul(x, x)

RECURSIVE FSum(_)
FSum(s) == IF s = << >> THEN F(0) ELSE FAdd(FSum(SubSeq(s, 1, Len(s) - 1)), s[Len(s)])

HasNaN(s) == \E k \in 1..Len(s) : IsNaN(s[k])

\* ------------------------------------------------------ pandas helpers
\* the values of the window of length w ending at position i
Window(vals, i, w) == SubSeq(vals, i - w + 1, i)

\* Series.rolling(window=w) with min_periods = w: position i has a result
\* only when the window is full and holds no missing value
RollingValid(vals, i, w) == i >= w /\ ~HasNaN(Window(vals, i, w))

\* Series.rolling(window=w).mean()
RollingMean(vals, w) ==
  [i \in 1..Len(vals) |->
     IF RollingValid(vals, i, w) THEN FDiv(FSum(Window(vals, i, w)), F(w)) ELSE NaN]

\* Series.rolling(window=w, min_periods=w).sum()
RollingSum(vals, w) ==
  [i \in 1..Len(vals) |->
     IF RollingValid(vals, i, w) THEN FSum(Window(vals, i, w)) ELSE NaN]

\* Series.shift(k): position i holds the value k positions earlier, or NaN
Shift(vals, k) == [i \in 1..Len(vals) |-> IF i > k THEN vals[i - k] ELSE NaN]

\* Series.fillna(0), mutated: the missing ratio is left as it is
FillNa0_Skip(x) == x

\* Series.fillna(0) on one element
FillNa0(x) == IF IsNaN(x) THEN F(0) ELSE x

\* --------------------------------------------------------------- kama
\* vol = |close - close.shift(1)|
vol(close) == [i \in 1..Len(close) |-> FAbs(FSub(close[i], Shift(close, 1)[i]))]

\* er_num = |close - close.shift(l1)|
er_num(close, l1) == [i \in 1..Len(close) |-> FAbs(FSub(close[i], Shift(close, l1)[i]))]

\* er_den = vol.rolling(window=l1, min_periods=l1).sum()
er_den(close, l1) == RollingSum(vol(close), l1)

\* efficiency_ratio = (er_num / er_den).fillna(0)
EfficiencyRatio(close, l1) ==
  [i \in 1..Len(close) |-> FillNa0(FDiv(er_num(close, l1)[i], er_den(close, l1)[i]))]

\* 2.0 / (l + 1) on Python floats, for l + 1 # 0
EmaConst(l) == FDiv(F(2), F(l + 1))

\* sc = (efficiency_ratio * (2/(l2+1) - 2/(l3+1)) + 2/(l3+1)) ** 2
SmoothingConstant(ratio, l2, l3) ==
  [i \in 1..Len(ratio) |->
     FSq(FAdd(FMul(ratio[i], FSub(EmaConst(l2), EmaConst(l3))), EmaConst(l3)))]

\* the recurrence, mutated: the previous value is not subtracted from the input
KamaUpdate_NoDiff(prev, s, close) == FAdd(prev, FMul(s, close))

\* the recurrence, mutated: a missing previous value is replaced by the input
KamaUpdate_Reseed(prev, s, close) ==
  IF IsNaN(prev) THEN close ELSE FAdd(prev, FMul(s, FSub(close, prev)))

\* kama_values[i - 1] + sc[i] * (close_values[i] - kama_values[i - 1])
KamaUpdate(prev, s, close) == FAdd(prev, FMul(s, FSub(close, prev)))

\* first_value after the seeding branch, mutated: the flag is never cleared
FirstValueAfterSeed_Kept == TRUE

\* first_value after the seeding branch
FirstValueAfterSeed == FALSE

\* kama_values[i - 1] as numpy reads it: at i = 0 index -1 wraps to the last
\* element, which np.full left at NaN
KamaPrev(kv, i) == IF i = 1 THEN kv[Len(kv)] ELSE kv[i - 1]

\* ------------------------------------------------- linear regression
\* x = np.arange(n): the k-th element is k - 1
RECURSIVE sum_x(_)
sum_x(n) == IF n = 0 THEN 0 ELSE sum_x(n - 1) + (n - 1)

RECURSIVE sum_x2(_)
sum_x2(n) == IF n = 0 THEN 0 ELSE sum_x2(n - 1) + (n - 1) * (n - 1)

\* sum_xy = np.sum(x * y)
sum_xy(y) == FSum([k \in 1..Len(y) |-> FMul(F(k - 1), y[k])])

\* numerator = n * sum_xy - sum_x * sum_y
numerator(y) ==
  FSub(FMul(F(Len(y)), sum_xy(y)), FMul(F(sum_x(Len(y))), FSum(y)))

\* denominator = n * sum_x2 - sum_x ** 2
denominator(n) == n * sum_x2(n) - sum_x(n) * sum_x(n)

\* a division inside an @njit function: under numba's default error model
\* ("python") a zero divisor raises ZeroDivisionError; with the JIT disabled
\* (numpy scalars, "numpy") the IEEE result is returned
NjitDivRaises(em, divisor) == em = "python" /\ divisor = F(0)

\* the slope, mutated: sum_x is dropped from the numerator
_get_linear_regression_slope_NoSumX(series) ==
  FDiv(FSub(FMul(F(Len(series)), sum_xy(series)), FSum(series)),
       F(denominator(Len(series))))

\* _get_linear_regression_slope: numerator / denominator
_get_linear_regression_slope(series) ==
  FDiv(numerator(series), F(denominator(Len(series))))

\* whether _get_linear_regression_slope raises on this window
_get_linear_regression_slope_raises(em, series) == NjitDivRaises(em, F(denominator(Len(series))))

\* intercept = (sum_y - slope * sum_x) / n
intercept(y) ==
  FDiv(FSub(FSum(y), FMul(_get_linear_regression_slope(y), F(sum_x(Len(y))))), F(Len(y)))

\* the fitted line, mutated: the intercept is left out
y_pred_NoIntercept(y) ==
  [k \in 1..Len(y) |-> FMul(_get_linear_regression_slope(y), F(k - 1))]

\* y_pred = intercept + slope * x
y_pred(y) ==
  [k \in 1..Len(y) |-> FAdd(intercept(y), FMul(_get_linear_regression_slope(y), F(k - 1)))]

\* np.mean(y)
Mean(y) == FDiv(FSum(y), F(Len(y)))

\* SST = np.sum((y - np.mean(y)) ** 2)
SST(y) == FSum([k \in 1..Len(y) |-> FSq(FSub(y[k], Mean(y)))])

\* SSR = np.sum((y - y_pred) ** 2)
SSR(y) == FSum([k \in 1..Len(y) |-> FSq(FSub(y[k], y_pred(y)[k]))])

\* R2 = 1 - SSR / SST
R2(y) == FSub(F(1), FDiv(SSR(y), SST(y)))

\* whether _get_linear_regression_slope_and_r2 raises on this window: at the
\* slope's division or at SSR / SST
_get_linear_regression_slope_and_r2_raises(em, series) ==
  _get_linear_regression_slope_raises(em, series) \/ NjitDivRaises(em, SST(series))

\* ---------------------------------------------------------------- state
VARIABLES
  pc,            \* "idle", "kama_loop", "r2_loop", "done", "raised"
  fn,            \* the function called
  index,         \* df.index: the row labels of the input table
  has_col,       \* col in df.columns
  values,        \* df[col], << >> when the column is absent
  window_size,   \* sma, linear_slope, linear_slope_and_r2
  l1, l2, l3,    \* kama
  error_model,   \* how a division by zero inside an @njit function ends
  efficiency_ratio,
  sc,
  i,             \* the loop variable (1-based)
  first_value,
  out,           \* sma_series, kama_values, lin_slope, slopes
  r2s,
  out_index,     \* the index of the object under construction or returned
  built,         \* an output array, Series or DataFrame has been created
  err            \* the exception the call ended in

vars == <<pc, fn, index, has_col, values, window_size, l1, l2, l3, error_model,
          efficiency_ratio, sc, i, first_value, out, r2s, out_index, built, err>>

\* ---------------------------------------------------------------- inputs
Vals == {NaN} \cup {F(k) : k \in 0..MaxVal}

LinearColumn(a, b, n) == [k \in 1..n |-> F(a * (k - 1) + b)]

Columns ==
  UNION {[1..n -> Vals] : n \in 0..MaxLen}
  \cup {LinearColumn(a, b, n) : a \in (0 - MaxA)..MaxA, b \in (0 - MaxB)..MaxB, n \in 0..MaxLen}

\* df.index of a table of n rows: labels, not positions
IndexOf(n) == [k \in 1..n |-> 10 * k]

\* the tables a call may get: an index, and the column when it is present
Tables ==
  {[index |-> IndexOf(Len(c)), has_col |-> TRUE, values |-> c] : c \in Columns}
  \cup {[index |-> IndexOf(n), has_col |-> FALSE, values |-> << >>] : n \in 0..MaxLen}

Windows == 1..MaxW

L1s == 1..MaxL1

Ls == (0 - MaxNegL)..MaxL

ErrorModels == {"python", "numpy"}

AllNaN(n) == [k \in 1..n |-> NaN]

Init ==
  /\ pc = "idle" /\ fn = "none"
  /\ index = << >> /\ has_col = FALSE /\ values = << >>
  /\ window_size = 0 /\ l1 = 0 /\ l2 = 0 /\ l3 = 0
  /\ error_model = "none"
  /\ efficiency_ratio = << >> /\ sc = << >>
  /\ i = 0 /\ first_value = FALSE
  /\ out = << >> /\ r2s = << >> /\ out_index = << >>
  /\ built = FALSE /\ err = "none"

\* the arguments of a call
Args(f, t, w, p1, p2, p3, em) ==
  /\ fn' = f
  /\ index' = t.index /\ has_col' = t.has_col /\ values' = t.values
  /\ window_size' = w /\ l1' = p1 /\ l2' = p2 /\ l3' = p3
  /\ error_model' = em

\* the call ends in exception e
Raise(e) == pc' = "raised" /\ err' = e

\* ------------------------------------------------------------------ sma
sma ==
  /\ pc = "idle"
  /\ \E t \in Tables, w \in Windows :
      /\ Args("sma", t, w, 0, 0, 0, "none")
      /\ UNCHANGED <<efficiency_ratio, sc, i, first_value, r2s>>
      /\ IF ~t.has_col
         THEN /\ Raise("ValueError")
              /\ UNCHANGED <<out, out_index, built>>
         ELSE /\ out' = RollingMean(t.values, w)
              /\ out_index' = t.index
              /\ built' = TRUE
              /\ pc' = "done"
              /\ UNCHANGED err

\* ----------------------------------------------------------------- kama
\* lines 69-94: validation, the smoothing constants, the output buffer
kama ==
  /\ pc = "idle"
  /\ \E t \in Tables, p1 \in L1s, p2 \in Ls, p3 \in Ls :
      /\ Args("kama", t, 0, p1, p2, p3, "none")
      /\ UNCHANGED <<r2s, out_index>>
      /\ IF ~t.has_col
         THEN /\ Raise("ValueError")
              /\ UNCHANGED <<efficiency_ratio, sc, i, first_value, out, built>>
         ELSE IF p2 + 1 = 0 \/ p3 + 1 = 0
         THEN /\ Raise("ZeroDivisionError")
              /\ efficiency_ratio' = EfficiencyRatio(t.values, p1)
              /\ UNCHANGED <<sc, i, first_value, out, built>>
         ELSE /\ efficiency_ratio' = EfficiencyRatio(t.values, p1)
              /\ sc' = SmoothingConstant(EfficiencyRatio(t.values, p1), p2, p3)
              /\ out' = AllNaN(Len(t.values))
              /\ built' = TRUE
              /\ first_value' = TRUE
              /\ i' = 1
              /\ pc' = "kama_loop"
              /\ UNCHANGED err

\* lines 97-105: one iteration of the forward pass
KamaStep ==
  /\ pc = "kama_loop" /\ i <= Len(values)
  /\ out' = [out EXCEPT ![i] =
               IF IsNaN(sc[i]) THEN NaN
               ELSE IF first_value THEN values[i]
               ELSE KamaUpdate(KamaPrev(out, i), sc[i], values[i])]
  /\ first_value' = IF ~IsNaN(sc[i]) /\ first_value THEN FirstValueAfterSeed
                    ELSE first_value
  /\ i' = i + 1
  /\ UNCHANGED <<pc, fn, index, has_col, values, window_size, l1, l2, l3, error_model,
                 efficiency_ratio, sc, r2s, out_index, built, err>>

\* line 107: the Series over df.index
KamaReturn ==
  /\ pc = "kama_loop" /\ i > Len(values)
  /\ out_index' = index
  /\ pc' = "done"
  /\ UNCHANGED <<fn, index, has_col, values, window_size, l1, l2, l3, error_model,
                 efficiency_ratio, sc, i, first_value, out, r2s, built, err>>

\* --------------------------------------------------------- linear_slope
\* df[col].rolling(window_size).apply(_get_linear_regression_slope, raw=True)
RollingApplySlope(vals, w) ==
  [k \in 1..Len(vals) |->
     IF RollingValid(vals, k, w) THEN _get_linear_regression_slope(Window(vals, k, w))
     ELSE NaN]

linear_slope ==
  /\ pc = "idle"
  /\ \E t \in Tables, w \in Windows, em \in ErrorModels :
      /\ Args("linear_slope", t, w, 0, 0, 0, em)
      /\ UNCHANGED <<efficiency_ratio, sc, i, first_value, r2s>>
      /\ IF ~t.has_col
         THEN /\ Raise("KeyError")
              /\ UNCHANGED <<out, out_index, built>>
         ELSE IF \E k \in 1..Len(t.values) :
                   RollingValid(t.values, k, w) /\ _get_linear_regression_slope_raises(em, Window(t.values, k, w))
         THEN /\ Raise("ZeroDivisionError")
              /\ built' = TRUE
              /\ UNCHANGED <<out, out_index>>
         ELSE /\ out' = RollingApplySlope(t.values, w)
              /\ out_index' = t.index
              /\ built' = TRUE
              /\ pc' = "done"
              /\ UNCHANGED err

\* -------------------------------------------------- linear_slope_and_r2
\* lines 266-272: the empty DataFrame over df.index, then the column lookup
linear_slope_and_r2 ==
  /\ pc = "idle"
  /\ \E t \in Tables, w \in Windows, em \in ErrorModels :
      /\ Args("linear_slope_and_r2", t, w, 0, 0, 0, em)
      /\ out_index' = t.index
      /\ built' = TRUE
      /\ UNCHANGED <<efficiency_ratio, sc, first_value>>
      /\ IF ~t.has_col
         THEN /\ Raise("KeyError")
              /\ UNCHANGED <<i, out, r2s>>
         ELSE /\ out' = AllNaN(Len(t.values))
              /\ r2s' = AllNaN(Len(t.values))
              /\ i' = w
              /\ pc' = "r2_loop"
              /\ UNCHANGED err

\* lines 276-280: one window
R2Step ==
  /\ pc = "r2_loop" /\ i <= Len(values)
  /\ LET window == Window(values, i, window_size) IN
       IF _get_linear_regression_slope_and_r2_raises(error_model, window)
       THEN /\ Raise("ZeroDivisionError")
            /\ UNCHANGED <<i, out, r2s>>
       ELSE /\ out' = [out EXCEPT ![i] = _get_linear_regression_slope(window)]
            /\ r2s' = [r2s EXCEPT ![i] = R2(window)]
            /\ i' = i + 1
            /\ UNCHANGED <<pc, err>>
  /\ UNCHANGED <<fn, index, has_col, values, window_size, l1, l2, l3, error_model,
                 efficiency_ratio, sc, first_value, out_index, built>>

\* lines 283-286: the two columns are attached and the DataFrame returned
R2Return ==
  /\ pc = "r2_loop" /\ i > Len(values)
  /\ pc' = "done"
  /\ UNCHANGED <<fn, index, has_col, values, window_size, l1, l2, l3, error_model,
                 efficiency_ratio, sc, i, first_value, out, r2s, out_index, built, err>>

Next ==
  \/ sma
  \/ kama
  \/ KamaStep
  \/ KamaReturn
  \/ linear_slope
  \/ linear_slope_and_r2
  \/ R2Step
  \/ R2Return

Spec == Init /\ [][Next]_vars

\* -------------------------------------------------------------- claims
N == Len(values)

As == (0 - MaxA)..MaxA

Bs == (0 - MaxB)..MaxB

\* the input column is value[i] = a*i + b
LinearInput(a, b) == has_col /\ values = LinearColumn(a, b, N)

\* the full window ending at position k holds one value throughout
ConstantWindow(k) ==
  /\ k >= window_size /\ k <= N
  /\ ~IsNaN(values[k])
  /\ \A m \in (k - window_size + 1)..k : values[m] = values[k]

\* the positions at which the smoothing constant is defined
ScDefined == {p \in 1..Len(sc) : ~IsNaN(sc[p])}

FirstDefined(p) == p \in ScDefined /\ \A q \in 1..(p - 1) : q \notin ScDefined

\* C1 (as claimed): whichever of the four functions is called with a column
\* name that is not in the table, the call ends in the same input-validation
\* error, ValueError, and no output object was built before it.
C1_AbsentColumnValidated ==
  (fn # "none" /\ ~has_col) =>
     (pc = "raised" /\ err = "ValueError" /\ ~built)

\* C2 (as claimed): when kama returns, the smoothing constant is undefined and
\* the output is the missing marker at each of the first l1-1 positions.
C2_WarmupMissing ==
  (fn = "kama" /\ pc = "done") =>
     \A k \in 1..(l1 - 1) : k <= N => (IsNaN(sc[k]) /\ IsNaN(out[k]))

\* C3, the state part: while unseeded every position passed has an undefined
\* smoothing constant and a missing output; once seeded, the seeding position
\* p is the first position with a defined smoothing constant, the output at p
\* is the raw input at p and everything before p is missing; a finished pass
\* over a series with a defined smoothing constant is seeded.
C3_State ==
  (fn = "kama" /\ pc \in {"kama_loop", "done"}) =>
     /\ first_value =>
          \A q \in 1..(i - 1) : q \notin ScDefined /\ IsNaN(out[q])
     /\ ~first_value =>
          \E p \in 1..(i - 1) :
             /\ FirstDefined(p)
             /\ out[p] = values[p]
             /\ \A q \in 1..(p - 1) : IsNaN(out[q])
     /\ (pc = "done" /\ ScDefined # {}) => ~first_value

\* C3, the step part: a seeded fold stays seeded; the step that seeds is the
\* one at the first defined position and writes the raw input; a step of a
\* seeded fold writes the recurrence value, not the raw input.
C3_Step ==
  (fn = "kama" /\ pc = "kama_loop" /\ i' = i + 1) =>
     /\ ~first_value => ~first_value'
     /\ (first_value /\ ~first_value') => (FirstDefined(i) /\ out'[i] = values[i])
     /\ (~first_value /\ i \in ScDefined) =>
          out'[i] = FAdd(out[i - 1], FMul(sc[i], FSub(values[i], out[i - 1])))

\* C3: in one run of kama's forward pass the fold goes from unseeded to seeded
\* once and never back, at the first position whose smoothing constant is
\* defined; the output there is the raw input, every earlier position is
\* missing, and no later position is seeded from the raw input again.
C3_SeededOnce == [](C3_State) /\ [][C3_Step]_vars

\* C3 witness: a finished pass over three present values, seeded at the first
\* position, whose second output is not the raw input.
C3_Witness ==
  /\ fn = "kama" /\ pc = "done" /\ N >= 3 /\ ~first_value
  /\ ~HasNaN(values)
  /\ out[1] = values[1]
  /\ out[2] # values[2]

\* C4 (as claimed): for linear_slope_and_r2 with window w >= 2 on value[i] =
\* a*i + b of length n >= w, for any a and b, the call returns and R2 is 1 at
\* every position with a full window.
C4_R2OneOnAnyLine ==
  \A a \in As, b \in Bs :
    (fn = "linear_slope_and_r2" /\ LinearInput(a, b) /\ window_size >= 2
       /\ N >= window_size /\ pc \in {"done", "raised"}) =>
       (pc = "done" /\ \A k \in window_size..N : r2s[k] = F(1))

\* C4 (amended): the same for any a # 0: no window raises and the R2 written
\* at every position with a full window is 1.
C4_R2OneOnSlopedLine ==
  \A a \in As \ {0}, b \in Bs :
    (fn = "linear_slope_and_r2" /\ LinearInput(a, b) /\ window_size >= 2
       /\ N >= window_size) =>
       (pc # "raised" /\ \A k \in window_size..(i - 1) : r2s[k] = F(1))

\* C4 witness: a returned call on a sloped line with more than one full window.
C4_Witness ==
  /\ fn = "linear_slope_and_r2" /\ pc = "done"
  /\ window_size >= 2 /\ N > window_size
  /\ \E a \in As \ {0}, b \in Bs \ {0} : LinearInput(a, b)
  /\ r2s[N] = F(1) /\ r2s[window_size] = F(1)

\* C5 (as claimed): in linear_slope_and_r2 with w >= 2, a full window of
\* identical values does not make the call raise, and the R2 written at that
\* position is the IEEE result of SSR/SST with SST = 0: NaN or an infinity.
C5_ConstantWindowDegenerate ==
  (fn = "linear_slope_and_r2" /\ has_col /\ window_size >= 2) =>
     /\ (pc = "raised" => ~ConstantWindow(i))
     /\ \A k \in window_size..(i - 1) :
          ConstantWindow(k) => r2s[k] \in {NaN, PosInf, NegInf}

C7_AlignedWithWarmup ==
  (/\ has_col /\ pc \in {"done", "raised"}
   /\ fn = "kama" => (l2 + 1 # 0 /\ l3 + 1 # 0)
   /\ fn # "kama" => window_size >= 2) =>
     /\ pc = "done"
     /\ Len(out) = N /\ out_index = index
     /\ fn = "linear_slope_and_r2" => Len(r2s) = N
     /\ fn # "kama" =>
          \A k \in 1..N :
             /\ k < window_size =>
                  (IsNaN(out[k]) /\ (fn = "linear_slope_and_r2" => IsNaN(r2s[k])))
             /\ (k >= window_size /\ ~HasNaN(values)) =>
                  (~IsNaN(out[k]) /\ (fn = "linear_slope_and_r2" => ~IsNaN(r2s[k])))

\* C8: for kama on a constant input (every value c, l2+1 and l3+1 nonzero)
\* every output that is not the missing marker is c.
C8_ConstantInput ==
  (/\ fn = "kama" /\ pc \in {"kama_loop", "done"} /\ N >= 1
   /\ ~IsNaN(values[1])
   /\ \A k \in 1..N : values[k] = values[1]) =>
     \A k \in 1..N : IsNaN(out[k]) \/ out[k] = values[1]

\* C8 witness: a finished pass over three equal nonzero values whose last
\* output, a recurrence value, is that value.
C8_Witness ==
  /\ fn = "kama" /\ pc = "done" /\ N >= 3
  /\ values[1] # F(0) /\ ~IsNaN(values[1])
  /\ \A k \in 1..N : values[k] = values[1]
  /\ out[N] = values[1]

\* C9: in kama (l2+1 and l3+1 nonzero) the call does not raise, and at every
\* position where the efficiency-ratio denominator is zero or the numerator
\* or denominator is missing, the efficiency ratio is exactly 0 and the
\* smoothing constant is (2/(l3+1))^2.
C9_RatioFallback ==
  (fn = "kama" /\ has_col /\ l2 + 1 # 0 /\ l3 + 1 # 0) =>
     /\ pc # "raised"
     /\ \A k \in 1..N :
          (\/ er_den(values, l1)[k] = F(0)
           \/ IsNaN(er_num(values, l1)[k])
           \/ IsNaN(er_den(values, l1)[k])) =>
             /\ efficiency_ratio[k] = F(0)
             /\ sc[k] = FDiv(F(4), F((l3 + 1) * (l3 + 1)))

\* C9 witness: a finished pass with l1 = 2 over three equal values: the
\* ratio is missing at the first two positions and 0/0 at the third.
C9_Witness ==
  /\ fn = "kama" /\ pc = "done" /\ l1 = 2 /\ N = 3
  /\ IsNaN(er_num(values, l1)[1])
  /\ er_den(values, l1)[3] = F(0)
  /\ efficiency_ratio[3] = F(0)

\* C10: kama never recovers from a missing input: if the input at a position
\* already passed is missing, the output there and at every later position
\* passed is the missing marker, whatever the later inputs are.
C10_NoRecovery ==
  (fn = "kama" /\ pc \in {"kama_loop", "done"}) =>
     \A j \in 1..(i - 1) :
        IsNaN(values[j]) => \A k \in j..(i - 1) : IsNaN(out[k])

\* C10 witness: a finished pass whose first input is missing and whose later
\* inputs are all present, the last output still missing.
C10_Witness ==
  /\ fn = "kama" /\ pc = "done" /\ N >= 3
  /\ IsNaN(values[1])
  /\ \A k \in 2..N : ~IsNaN(values[k])
  /\ IsNaN(out[N])

====
